---- MODULE Spec2Model ----
(***************************************************************************)
(* Model of src/new.c: a binary search tree with AVL-style rotations and   *)
(* the driver main() that inserts the keys of an array one at a time and   *)
(* calls balance() on the root after each insertion.                       *)
(*                                                                         *)
(* The heap is a sequence of node records; a pointer is an index into it   *)
(* and NULL is 0.  createnode() leaves the height field of the malloc'ed   *)
(* node unwritten, so the value later read from it is indeterminate: it    *)
(* is drawn from Garbage.  A dereference of NULL ends the program          *)
(* (pc = "crashed").                                                       *)
(***************************************************************************)
EXTENDS Integers, Sequences, FiniteSets, TLC

VARIABLES heap, root, input, i, pc, rotlog, out

vars == <<heap, root, input, i, pc, rotlog, out>>

\* ---- bounds ----
MaxLen == 4
MaxKey == 3
MaxGarbage == 3

Keys == 1..MaxKey
Garbage == (0 - MaxGarbage)..MaxGarbage

\* ---- program constants ----
NULL == 0
data == <<1, 2, 3, 4, 5>>

\* ---- struct node / createnode ----
node(d, l, r, h) == [data |-> d, left |-> l, right |-> r, height |-> h]

\* g is the indeterminate content of the height field of the fresh block
createnode(h, d, g) ==
    [heap |-> Append(h, node(d, NULL, NULL, g)), root |-> Len(h) + 1]

\* ---- insert ----
RECURSIVE insert_flipped(_, _, _, _)
insert_flipped(h, rt, d, g) ==
    IF rt = NULL THEN createnode(h, d, g)
    ELSE IF d > h[rt].data
         THEN LET r == insert_flipped(h, h[rt].left, d, g)
              IN  [heap |-> [r.heap EXCEPT ![rt].left = r.root], root |-> rt]
         ELSE LET r == insert_flipped(h, h[rt].right, d, g)
              IN  [heap |-> [r.heap EXCEPT ![rt].right = r.root], root |-> rt]

RECURSIVE insert(_, _, _, _)
insert(h, rt, d, g) ==
    IF rt = NULL THEN createnode(h, d, g)
    ELSE IF d < h[rt].data
         THEN LET r == insert(h, h[rt].left, d, g)
              IN  [heap |-> [r.heap EXCEPT ![rt].left = r.root], root |-> rt]
         ELSE LET r == insert(h, h[rt].right, d, g)
              IN  [heap |-> [r.heap EXCEPT ![rt].right = r.root], root |-> rt]

\* ---- heights ----
getheight(h, rt) == IF rt = NULL THEN 0 ELSE h[rt].height

max(a, b) == IF a > b THEN a ELSE b

updateheight(h, rt) ==
    LET leftHeight  == getheight(h, h[rt].left)
        rightHeight == getheight(h, h[rt].right)
    IN  [h EXCEPT ![rt].height = max(leftHeight, rightHeight) + 1]

balancingfactor(h, rt) ==
    IF rt = NULL THEN 0
    ELSE getheight(h, h[rt].left) - getheight(h, h[rt].right)

\* ---- rotations ----
\* result of a read through NULL: the program stops, memory as it was
Segv(h) == [heap |-> h, root |-> NULL, crash |-> TRUE]

leftrotation_drop(h, rt) ==
    IF rt = NULL THEN Segv(h)
    ELSE LET newnode == h[rt].right IN
         IF newnode = NULL THEN Segv(h)
         ELSE [heap  |-> [h EXCEPT ![newnode].left = rt, ![rt].right = NULL],
               root  |-> newnode,
               crash |-> FALSE]

leftrotation(h, rt) ==
    IF rt = NULL THEN Segv(h)
    ELSE LET newnode == h[rt].right IN
         IF newnode = NULL THEN Segv(h)
         ELSE LET newsubtree == h[newnode].left
              IN  [heap  |-> [h EXCEPT ![newnode].left = rt,
                                       ![rt].right = newsubtree],
                   root  |-> newnode,
                   crash |-> FALSE]

rightrotation_drop(h, rt) ==
    IF rt = NULL THEN Segv(h)
    ELSE LET newnode == h[rt].left IN
         IF newnode = NULL THEN Segv(h)
         ELSE [heap  |-> [h EXCEPT ![newnode].right = rt, ![rt].left = NULL],
               root  |-> newnode,
               crash |-> FALSE]

rightrotation(h, rt) ==
    IF rt = NULL THEN Segv(h)
    ELSE LET newnode == h[rt].left IN
         IF newnode = NULL THEN Segv(h)
         ELSE LET newsubtree == h[newnode].right
              IN  [heap  |-> [h EXCEPT ![newnode].right = rt,
                                       ![rt].left = newsubtree],
                   root  |-> newnode,
                   crash |-> FALSE]

rightleftrotation(h, rt) ==
    IF rt = NULL THEN Segv(h)
    ELSE LET r1 == rightrotation(h, h[rt].right) IN
         IF r1.crash THEN Segv(h)
         ELSE leftrotation([r1.heap EXCEPT ![rt].right = r1.root], rt)

leftrightrotation(h, rt) ==
    IF rt = NULL THEN Segv(h)
    ELSE LET r1 == leftrotation(h, h[rt].left) IN
         IF r1.crash THEN Segv(h)
         ELSE rightrotation([r1.heap EXCEPT ![rt].left = r1.root], rt)

\* ---- balance ----
\* rot names the rotation balance chose: "none", "L", "R", "LR" or "RL"
Tag(r, k) == [heap |-> r.heap, root |-> r.root, crash |-> r.crash, rot |-> k]

balance_loose(h, rt) ==
    IF rt = NULL THEN Tag(Segv(h), "none")
    ELSE LET balancefactor == balancingfactor(h, rt)
             h1 == updateheight(h, rt)
         IN  IF balancefactor > 0
             THEN IF balancingfactor(h1, h1[rt].left) < 0
                  THEN Tag(leftrightrotation(h1, rt), "LR")
                  ELSE Tag(rightrotation(h1, rt), "R")
             ELSE IF balancefactor < -1
             THEN IF balancingfactor(h1, h1[rt].right) > 0
                  THEN Tag(rightleftrotation(h1, rt), "RL")
                  ELSE Tag(leftrotation(h1, rt), "L")
             ELSE [heap |-> h1, root |-> rt, crash |-> FALSE, rot |-> "none"]

balance(h, rt) ==
    IF rt = NULL THEN Tag(Segv(h), "none")
    ELSE LET balancefactor == balancingfactor(h, rt)
             h1 == updateheight(h, rt)
         IN  IF balancefactor > 1
             THEN IF balancingfactor(h1, h1[rt].left) < 0
                  THEN Tag(leftrightrotation(h1, rt), "LR")
                  ELSE Tag(rightrotation(h1, rt), "R")
             ELSE IF balancefactor < -1
             THEN IF balancingfactor(h1, h1[rt].right) > 0
                  THEN Tag(rightleftrotation(h1, rt), "RL")
                  ELSE Tag(leftrotation(h1, rt), "L")
             ELSE [heap |-> h1, root |-> rt, crash |-> FALSE, rot |-> "none"]

\* ---- inorder ----
RECURSIVE inorder(_, _)
inorder(h, rt) ==
    IF rt = NULL THEN <<>>
    ELSE inorder(h, h[rt].left) \o <<h[rt].data>> \o inorder(h, h[rt].right)

\* ---- main ----
Inputs == UNION {[1..n -> Keys] : n \in 1..MaxLen}

InitWith(keys) ==
    /\ input = keys
    /\ heap = <<>>
    /\ root = NULL
    /\ i = 1
    /\ pc = "start"
    /\ rotlog = <<>>
    /\ out = <<>>

Init == \E keys \in Inputs : InitWith(keys)

InitMain == InitWith(data)

\* the driver run on the keys 1, 3, 2
InitZigZag == InitWith(<<1, 3, 2>>)

AfterStep(k) == IF k <= Len(input) THEN "insert" ELSE "print"

\* struct node *root = createnode(data[0]);
Create ==
    /\ pc = "start"
    /\ \E g \in Garbage :
         LET r == createnode(heap, input[1], g)
         IN  /\ heap' = r.heap
             /\ root' = r.root
    /\ i' = 2
    /\ pc' = AfterStep(2)
    /\ UNCHANGED <<input, rotlog, out>>

\* root = insert(root, data[i]);
InsertStep ==
    /\ pc = "insert"
    /\ \E g \in Garbage :
         LET r == insert(heap, root, input[i], g)
         IN  /\ heap' = r.heap
             /\ root' = r.root
    /\ pc' = "balance"
    /\ UNCHANGED <<input, i, rotlog, out>>

\* root = balance(root); i++
BalanceStep ==
    /\ pc = "balance"
    /\ LET b == balance(heap, root)
       IN  /\ heap' = b.heap
           /\ rotlog' = Append(rotlog, b.rot)
           /\ IF b.crash
              THEN /\ pc' = "crashed"
                   /\ UNCHANGED <<root, i>>
              ELSE /\ root' = b.root
                   /\ i' = i + 1
                   /\ pc' = AfterStep(i + 1)
    /\ UNCHANGED <<input, out>>

\* inorder(root);
PrintStep ==
    /\ pc = "print"
    /\ out' = inorder(heap, root)
    /\ pc' = "done"
    /\ UNCHANGED <<heap, root, input, i, rotlog>>

Next == Create \/ InsertStep \/ BalanceStep \/ PrintStep

Spec == Init /\ [][Next]_vars

SpecMain == InitMain /\ [][Next]_vars

SpecZigZag == InitZigZag /\ [][Next]_vars

\* ---------------------------------------------------------------------
\* Vocabulary of the properties
\* ---------------------------------------------------------------------
Nodes(h) == 1..Len(h)

RECURSIVE Reach(_, _)
Reach(h, rt) ==
    IF rt = NULL THEN {}
    ELSE {rt} \cup Reach(h, h[rt].left) \cup Reach(h, h[rt].right)

\* height of a subtree as a shape, an absent subtree having height 0
RECURSIVE TreeHeight(_, _)
TreeHeight(h, rt) ==
    IF rt = NULL THEN 0
    ELSE 1 + max(TreeHeight(h, h[rt].left), TreeHeight(h, h[rt].right))

KeysOf(h, rt) == {h[n].data : n \in Reach(h, rt)}

Abs(x) == IF x < 0 THEN 0 - x ELSE x

Sorted(s) == SortSeq(s, LAMBDA a, b : a < b)

\* number of keys of input that are in the tree
InsertedCount ==
    CASE pc = "start"  -> 0
      [] pc = "insert" -> i - 1
      [] pc = "balance" -> i
      [] pc = "crashed" -> i
      [] OTHER -> Len(input)

Inserted == SubSeq(input, 1, InsertedCount)

Count(kind) == Cardinality({k \in DOMAIN rotlog : rotlog[k] = kind})

SameExceptLinks(h1, h2) ==
    /\ Len(h1) = Len(h2)
    /\ \A n \in Nodes(h1) : /\ h1[n].data = h2[n].data
                            /\ h1[n].height = h2[n].height

\* ---------------------------------------------------------------------
\* C1: AVL balance. When an insert call has returned, every node of the
\* tree has subtrees whose heights differ by at most one.
\* ---------------------------------------------------------------------
C1_AVLBalance ==
    pc = "balance" =>
        \A n \in Reach(heap, root) :
            Abs(TreeHeight(heap, heap[n].left)
                - TreeHeight(heap, heap[n].right)) <= 1

\* ---------------------------------------------------------------------
\* C2: BST order. The in-order traversal of the tree is the sorted
\* multiset of the keys inserted so far, and the traversal printed at the
\* end is the sorted input: no key is lost or added.
\* ---------------------------------------------------------------------
C2_InorderIsSortedInput ==
    /\ inorder(heap, root) = Sorted(Inserted)
    /\ pc = "done" => out = Sorted(input)

C2_Witness ==
    /\ pc = "done"
    /\ Len(input) >= 3
    /\ \E a, b \in DOMAIN input : a # b /\ input[a] = input[b]
    /\ \E k \in DOMAIN rotlog : rotlog[k] # "none"
    /\ out = Sorted(input)

\* ---------------------------------------------------------------------
\* C3: Height correctness. When an insert call has returned, the stored
\* height of every node is 1 + the larger of its children's stored
\* heights, an absent child counting 0; a leaf stores 1.
\* ---------------------------------------------------------------------
C3_StoredHeights ==
    pc = "balance" =>
        \A n \in Reach(heap, root) :
            heap[n].height = 1 + max(getheight(heap, heap[n].left),
                                     getheight(heap, heap[n].right))

\* ---------------------------------------------------------------------
\* C4: Search-tree invariant with ties to the right. When an insert call
\* has returned, every key in a node's left subtree is strictly less than
\* the node's key and every key in its right subtree is at least it.
\* ---------------------------------------------------------------------
C4_StrictOrder ==
    pc = "balance" =>
        \A n \in Reach(heap, root) :
            /\ \A k \in KeysOf(heap, heap[n].left)  : k < heap[n].data
            /\ \A k \in KeysOf(heap, heap[n].right) : k >= heap[n].data

\* C4 as amended: in every state, every key in a node's left subtree is at
\* most the node's key and every key in its right subtree is at least it.
C4_WeakOrder ==
    \A n \in Reach(heap, root) :
        /\ \A k \in KeysOf(heap, heap[n].left)  : k <= heap[n].data
        /\ \A k \in KeysOf(heap, heap[n].right) : k >= heap[n].data

\* a rotation has moved an equal key into a left subtree
C4_Witness ==
    /\ pc = "balance"
    /\ \E n \in Reach(heap, root) :
         heap[n].data \in KeysOf(heap, heap[n].left)

\* ---------------------------------------------------------------------
\* C5: Ascending scenario. The driver, having inserted 1, 2, 3, 4, 5,
\* prints 1 2 3 4 5 and holds a tree of height 3.
\* ---------------------------------------------------------------------
C5_AscendingScenario ==
    pc = "done" =>
        /\ out = <<1, 2, 3, 4, 5>>
        /\ TreeHeight(heap, root) = 3

\* ---------------------------------------------------------------------
\* C6: Zig-zag scenario. After the keys 1, 3, 2 are inserted, exactly one
\* left-right rotation has happened and the tree is 2 over 1 and 3.
\* ---------------------------------------------------------------------
C6_ZigZagScenario ==
    pc = "done" =>
        /\ Count("LR") = 1
        /\ root # NULL
        /\ heap[root].data = 2
        /\ heap[root].left # NULL
        /\ heap[heap[root].left].data = 1
        /\ heap[root].right # NULL
        /\ heap[heap[root].right].data = 3

\* ---------------------------------------------------------------------
\* C7: Rebalancing inside insert. What an insert call on a non-empty tree
\* leaves and returns is what balance makes of the tree once the
\* recursive assignment is done.
\* ---------------------------------------------------------------------
C7_InsertReturnsBalance ==
    [][(pc = "insert" /\ pc' = "balance") =>
          \E g \in Garbage :
              LET a == insert(heap, root, input[i], g)
                  b == balance(a.heap, a.root)
              IN  /\ ~b.crash
                  /\ heap' = b.heap
                  /\ root' = b.root]_vars

\* ---------------------------------------------------------------------
\* C8: balance decision procedure. With bf the balance factor of a
\* present node read before any rotation, balance is the left-right
\* rotation when bf > 1 and the left child leans right, the right
\* rotation when bf > 1 otherwise, the right-left rotation when bf < -1
\* and the right child leans left, the left rotation when bf < -1
\* otherwise, each on the tree with the node's height refreshed; when
\* -1 <= bf <= 1 it returns the same node, no link changed, only the
\* node's height refreshed.
\* ---------------------------------------------------------------------
Agree(b, r) == b.heap = r.heap /\ b.root = r.root /\ b.crash = r.crash

C8_BalanceDecision ==
    \A r \in Nodes(heap) :
        LET l  == heap[r].left
            rr == heap[r].right
            bf == getheight(heap, l) - getheight(heap, rr)
            fresh == 1 + max(getheight(heap, l), getheight(heap, rr))
            h1 == [heap EXCEPT ![r].height = fresh]
            b  == balance(heap, r)
        IN  /\ (bf > 1 /\ balancingfactor(heap, l) < 0)
                  => Agree(b, leftrightrotation(h1, r)) /\ b.rot = "LR"
            /\ (bf > 1 /\ ~(balancingfactor(heap, l) < 0))
                  => Agree(b, rightrotation(h1, r)) /\ b.rot = "R"
            /\ (bf < -1 /\ balancingfactor(heap, rr) > 0)
                  => Agree(b, rightleftrotation(h1, r)) /\ b.rot = "RL"
            /\ (bf < -1 /\ ~(balancingfactor(heap, rr) > 0))
                  => Agree(b, leftrotation(h1, r)) /\ b.rot = "L"
            /\ (bf >= -1 /\ bf <= 1)
                  => /\ b.root = r
                     /\ ~b.crash
                     /\ b.rot = "none"
                     /\ Len(b.heap) = Len(heap)
                     /\ \A n \in Nodes(heap) :
                          /\ b.heap[n].left = heap[n].left
                          /\ b.heap[n].right = heap[n].right
                          /\ b.heap[n].data = heap[n].data
                          /\ n # r => b.heap[n].height = heap[n].height
                     /\ b.heap[r].height = fresh

\* the driver's balance has taken a rotating branch on one side, a
\* composite one on the other, and the non-rotating branch
C8_Witness ==
    /\ pc = "done"
    /\ Count("none") >= 1
    /\ Count("RL") >= 1

\* ---------------------------------------------------------------------
\* C9: Rotation frame. A rotation applied to a node whose pivot is
\* present changes child links only: the nodes under the returned root
\* are those under the given root, the in-order keys are the same, and
\* no key or stored height is modified.
\* ---------------------------------------------------------------------
Frame(r, res) ==
    /\ ~res.crash
    /\ Reach(res.heap, res.root) = Reach(heap, r)
    /\ inorder(res.heap, res.root) = inorder(heap, r)
    /\ SameExceptLinks(res.heap, heap)

C9_RotationFrame ==
    \A r \in Nodes(heap) :
        LET l  == heap[r].left
            rr == heap[r].right
        IN  /\ rr # NULL => Frame(r, leftrotation(heap, r))
            /\ l # NULL => Frame(r, rightrotation(heap, r))
            /\ (l # NULL /\ heap[l].right # NULL)
                  => Frame(r, leftrightrotation(heap, r))
            /\ (rr # NULL /\ heap[rr].left # NULL)
                  => Frame(r, rightleftrotation(heap, r))

\* the driver's balance has performed a left-right rotation and the run
\* went on to its end
C9_Witness ==
    /\ pc = "done"
    /\ Count("LR") >= 1
    /\ Count("L") >= 1

\* ---------------------------------------------------------------------
\* C10: Rotation preconditions. The driver never reaches a rotation whose
\* pivot is absent: no run reads through NULL.
\* ---------------------------------------------------------------------
C10_NoNullDeref == pc # "crashed"

====
